---- MODULE Spec2Model ----
(***************************************************************************)
(* BangumiBot graph ingestion (src/create_graph.py): the pipeline of       *)
(* BangumiDatabase.initilize_database, its Reference Index (the four       *)
(* lookup tables of the object), its label resolution and the Cypher       *)
(* statements it sends to the store.                                       *)
(*                                                                         *)
(* One action is one loop iteration or one call of the pipeline.  The      *)
(* lines of the input files are read lazily, as `for line in f` does: the  *)
(* next line is an input of the step that reads it.  Entity files are      *)
(* dumps keyed by id, so one file never holds the same id twice.           *)
(* Non-ASCII display strings of the source are written in pinyin.          *)
(***************************************************************************)
EXTENDS Integers, Sequences, FiniteSets, TLC

\* ------------------------------------------------------------------ bounds
MaxLines == 6     \* lines read from the input files, over all the runs
MaxRuns == 2      \* calls of initilize_database on one object
MaxCap == 1       \* a configured ENTITY_LIMIT or RELATION_LIMIT is in 0..MaxCap
MaxReplayLines == 3   \* lines of the input files when the same files are read twice

Ids == {1, 2}     \* the ids the input files use

\* ------------------------------------------------- static tables of the code
None == -1
KeyError == "KeyError"

CATEGORY_MAPPING ==
    (1 :> "shuji" @@ 2 :> "donghua" @@ 3 :> "yinyue" @@ 4 :> "youxi" @@ 6 :> "sanciyuan")

PERSON_TYPE_MAPPING == (1 :> "geren" @@ 2 :> "gongsi" @@ 3 :> "zuhe")

CAREER_MAPPING ==
    ("producer" :> "zhizuorenyuan" @@ "writer" :> "zuojia" @@ "actor" :> "yanyuan"
     @@ "illustrator" :> "huishi" @@ "seiyu" :> "shengyou" @@ "mangaka" :> "manhuajia"
     @@ "artist" :> "yinyueren")

CHARACTER_ROLE_MAPPING == (1 :> "juese" @@ 2 :> "jiti" @@ 3 :> "zuzhi" @@ 4 :> "weizhi")

SUBJECT_CHARACTER_TYPE_MAPPING == (1 :> "zhujue" @@ 2 :> "peijue" @@ 3 :> "kechuan")

\* The taxonomy tables are loaded from YAML files that are not part of the
\* sources; their shape (category -> code -> record with a cn label) is the
\* code's, their content a sample: one sub-table per category of the data
\* model, the codes of different categories overlapping only in part.
SUBJECT_RELATION_CONFIG ==
    (1 :> (1 :> [cn |-> "gaibian"])
     @@ 2 :> (1 :> [cn |-> "gaibian"] @@ 2 :> [cn |-> "qianzhuan"])
     @@ 3 :> (1 :> [cn |-> "yuanshengji"])
     @@ 4 :> (1 :> [cn |-> "gaibian"])
     @@ 6 :> (1 :> [cn |-> "gaibian"]))

SUBJECT_PERSON_CONFIG ==
    (1 :> (2001 :> [cn |-> "zuozhe"])
     @@ 2 :> (1 :> [cn |-> "yuanzuo"] @@ 2 :> [cn |-> "daoyan"])
     @@ 3 :> (3001 :> [cn |-> "yishujia"])
     @@ 4 :> (1001 :> [cn |-> "kaifa"])
     @@ 6 :> (4001 :> [cn |-> "yuanzuo"]))

\* PLATFORM_CONFIG.items() then item_list.values(), flattened in order.
PLATFORM_CONFIG ==
    << [category |-> 1, id |-> 1001, type_cn |-> "manhua"],
       [category |-> 2, id |-> 1, type_cn |-> "TV"] >>

\* ------------------------------------------------------------ input domains
InputCategories == {1, 2, 5}
InputPlatforms == {1}
\* Every entity carries a display name of its own.
SubjectName(id) == "S" \o ToString(id)
CharacterName(id) == "C" \o ToString(id)
InputPersonTypes == {0, 1, 4}
InputRoles == {1, 5}
InputRelationTypes == {1, 2}
InputPositions == {1, 2001}
InputCharacterTypes == {1, 4}
Limits == {None} \cup (0..MaxCap)

\* @dataclass Subject / Person / Character and the four relation records,
\* with the fields the pipeline reads.  The fields of a record that
\* _insert_a_subject or _insert_a_person drops are never read, and neither
\* is the career of a person whose type has no label: those take one value.
Subject ==
    {[id |-> i, type |-> t, name |-> SubjectName(i), platform |-> p, nsfw |-> FALSE] :
        i \in Ids, t \in InputCategories, p \in InputPlatforms}
    \cup {[id |-> i, type |-> 2, name |-> SubjectName(i), platform |-> 1, nsfw |-> TRUE] :
        i \in Ids}
Person ==
    {[id |-> i, type |-> t, career |-> <<"seiyu">>] : i \in Ids, t \in InputPersonTypes}
    \cup {[id |-> i, type |-> 1, career |-> <<"seiyu", "bogus">>] : i \in Ids}
Character == {[id |-> i, role |-> r, name |-> CharacterName(i)] : i \in Ids, r \in InputRoles}
SubjectRelation == [subject_id : Ids, related_subject_id : Ids,
                    relation_type : InputRelationTypes]
SubjectPersonRelation == [person_id : Ids, subject_id : Ids, position : InputPositions]
SubjectCharacterRelation == [character_id : Ids, subject_id : Ids, type : InputCharacterTypes]
PersonCharacterRelation == [person_id : Ids, character_id : Ids, subject_id : Ids]

\* ------------------------------------------------------------------- state
VARIABLES
    pc,                         \* the pipeline stage the run is in
    run,                        \* calls of initilize_database so far
    cnt,                        \* the local cnt of the current file loop
    nread,                      \* lines (or platforms) consumed in the current stage
    seen,                       \* ids of the lines read from the current entity file
    lines,                      \* lines read from the input files since construction
    ENTITY_LIMIT, RELATION_LIMIT,
    subject_category_mapping, subject_name_mapping,
    person_id_set, character_name_mapping,
    store,                      \* the graph database
    adult,                      \* ids of the adult subject records read in this run
    typeless,                   \* ids of the type-0 person records read in this run
    last,                       \* what the latest step read and did
    replay,                     \* whether a second call is fed the files of the first
    tape,                       \* the lines and store answers of the first call, in order
    first                       \* the store as the previous call left it

index == <<subject_category_mapping, subject_name_mapping,
           person_id_set, character_name_mapping>>
limits == <<ENTITY_LIMIT, RELATION_LIMIT>>
vars == <<pc, run, cnt, nread, seen, lines, ENTITY_LIMIT, RELATION_LIMIT,
          subject_category_mapping, subject_name_mapping, person_id_set,
          character_name_mapping, store, adult, typeless, last,
          replay, tape, first>>

\* ------------------------------------------------------------ dicts and bags
EmptyDict == << >>
DictSet(d, k, v) == [x \in (DOMAIN d) \cup {k} |-> IF x = k THEN v ELSE d[x]]

EmptyBag == << >>
BagAdd(B, e) == [x \in (DOMAIN B) \cup {e} |->
                    IF x = e THEN (IF e \in DOMAIN B THEN B[e] + 1 ELSE 1) ELSE B[x]]
\* MERGE of relationships: each one is created only when none like it exists.
BagMerge(B, E) == [x \in (DOMAIN B) \cup E |-> IF x \in DOMAIN B THEN B[x] ELSE 1]
BagSize(B, S) == LET RECURSIVE Sum(_)
                     Sum(T) == IF T = {} THEN 0
                               ELSE LET t == CHOOSE t \in T : TRUE
                                    IN B[t] + Sum(T \ {t})
                 IN Sum(S \cap DOMAIN B)

\* ------------------------------------------------------------------- store
\* Nodes of a label and relationships are bags: CREATE adds one more, MERGE
\* adds one only when nothing matches.  A node reference names its label
\* and identifying properties.
EmptyStore == [subjects |-> EmptyBag, persons |-> EmptyBag, characters |-> EmptyBag,
               platforms |-> EmptyBag, roles |-> {}, edges |-> EmptyBag,
               constraints |-> {}]

SubjectRef(id) == <<"Subject", id>>
PersonRef(id) == <<"Person", id>>
CharacterRef(id) == <<"Character", id>>
PlatformRef(p) == <<"Platform", p.category, p.platform_id, p.name>>
RoleRef(r) == <<"RolePerformance", r.rid>>
Edge(kind, src, dst, type) == [kind |-> kind, src |-> src, dst |-> dst, type |-> type]

ConstraintNames == <<"unique_subject_id", "unique_person_id", "unique_character_id">>

\* A clear stage that deletes nothing.
KeepAll(st) == st

\* "MATCH (n) DETACH DELETE n": every node and relationship goes, constraints stay.
DetachDeleteAll(st) == [EmptyStore EXCEPT !.constraints = st.constraints]

\* The uniqueness constraints make a CREATE of a node with a taken id fail.
UniqueViolation(st, constraint, nodes, id) ==
    constraint \in st.constraints /\ id \in DOMAIN nodes

\* CREATE (:Platform {platform_id: $id, category: $category, name: $name})
CreatePlatform(st, platform, category, name) ==
    [st EXCEPT !.platforms =
        BagAdd(@, [platform_id |-> platform.id, category |-> category, name |-> name])]

\* CREATE (s:Subject {...}) MERGE (p:Platform {platform_id, category})
\* MERGE (s)-[:BELONG_TO]->(p).  A Platform node made by this MERGE has no name.
CreateSubject(st, subject) ==
    LET matched == {p \in DOMAIN st.platforms :
                        p.platform_id = subject.platform /\ p.category = subject.type}
        fresh == [platform_id |-> subject.platform, category |-> subject.type, name |-> ""]
        ps == IF matched = {} THEN {fresh} ELSE matched
    IN [st EXCEPT !.subjects = BagAdd(@, subject.id),
                  !.platforms = IF matched = {} THEN BagAdd(@, fresh) ELSE @,
                  !.edges = BagMerge(@, {Edge("BELONG_TO", SubjectRef(subject.id),
                                              PlatformRef(p), "") : p \in ps})]

\* CREATE (p:Person {...})
CreatePerson(st, person) == [st EXCEPT !.persons = BagAdd(@, person.id)]

\* CREATE (c:Character {...})
CreateCharacter(st, character) == [st EXCEPT !.characters = BagAdd(@, character.id)]

\* MATCH (s1:Subject) MATCH (s2:Subject) MERGE (s1)-[:SubjectRelation {type}]->(s2)
MergeSubjectRelation(st, r, relation_name) ==
    IF r.subject_id \in DOMAIN st.subjects /\ r.related_subject_id \in DOMAIN st.subjects
    THEN [st EXCEPT !.edges = BagMerge(@, {Edge("SubjectRelation", SubjectRef(r.subject_id),
                                   SubjectRef(r.related_subject_id), relation_name)})]
    ELSE st

\* The statement with CREATE in place of MERGE: one more relationship for
\* every record.
CreateSubjectPersonRelation(st, r, relation_name) ==
    IF r.subject_id \in DOMAIN st.subjects /\ r.person_id \in DOMAIN st.persons
    THEN [st EXCEPT !.edges = BagAdd(@, Edge("SubjectPersonRelation",
                      SubjectRef(r.subject_id), PersonRef(r.person_id), relation_name))]
    ELSE st

\* MATCH (s:Subject) MATCH (p:Person) MERGE (s)-[:SubjectPersonRelation {type}]->(p)
MergeSubjectPersonRelation(st, r, relation_name) ==
    IF r.subject_id \in DOMAIN st.subjects /\ r.person_id \in DOMAIN st.persons
    THEN [st EXCEPT !.edges = BagMerge(@, {Edge("SubjectPersonRelation",
                      SubjectRef(r.subject_id), PersonRef(r.person_id), relation_name)})]
    ELSE st

\* MATCH (c:Character) MATCH (s:Subject) MERGE (c)-[:AppearsIn {type}]->(s)
MergeAppearsIn(st, r, type) ==
    IF r.character_id \in DOMAIN st.characters /\ r.subject_id \in DOMAIN st.subjects
    THEN [st EXCEPT !.edges = BagMerge(@, {Edge("AppearsIn",
                      CharacterRef(r.character_id), SubjectRef(r.subject_id), type)})]
    ELSE st

\* The role property of the MERGE pattern is the Cypher string literal
\* "$character_name in $subject_name": Cypher substitutes no parameter inside
\* a string literal, so the two parameters are sent and never read.
RoleLabel(character_name, subject_name) == "$character_name in $subject_name"

\* The statement with CREATE in place of the first MERGE: a new
\* RolePerformance node for every record.
CreateRolePerformance(st, r, character_name, subject_name) ==
    IF /\ r.person_id \in DOMAIN st.persons
       /\ r.character_id \in DOMAIN st.characters
       /\ r.subject_id \in DOMAIN st.subjects
    THEN LET fresh == [rid |-> Cardinality(st.roles) + 1,
                       role |-> RoleLabel(character_name, subject_name)]
         IN [st EXCEPT
               !.roles = @ \cup {fresh},
               !.edges = BagMerge(@,
                    {Edge("Played", PersonRef(r.person_id), RoleRef(fresh), ""),
                     Edge("AsCharacter", RoleRef(fresh), CharacterRef(r.character_id), ""),
                     Edge("In", RoleRef(fresh), SubjectRef(r.subject_id), "")})]
    ELSE st

\* MATCH (p:Person) MATCH (c:Character) MATCH (s:Subject)
\* MERGE (p)-[:Played]->(r:RolePerformance {role: ...})
\* MERGE (r)-[:AsCharacter]->(c) MERGE (r)-[:In]->(s)
MergeRolePerformance(st, r, character_name, subject_name) ==
    IF /\ r.person_id \in DOMAIN st.persons
       /\ r.character_id \in DOMAIN st.characters
       /\ r.subject_id \in DOMAIN st.subjects
    THEN LET role == RoleLabel(character_name, subject_name)
             matched == {n \in st.roles :
                            /\ n.role = role
                            /\ Edge("Played", PersonRef(r.person_id), RoleRef(n), "")
                                   \in DOMAIN st.edges}
             fresh == [rid |-> Cardinality(st.roles) + 1, role |-> role]
             rs == IF matched = {} THEN {fresh} ELSE matched
         IN [st EXCEPT
               !.roles = @ \cup rs,
               !.edges = BagMerge(@,
                    {Edge("Played", PersonRef(r.person_id), RoleRef(n), "") : n \in rs}
                    \cup {Edge("AsCharacter", RoleRef(n), CharacterRef(r.character_id), "")
                              : n \in rs}
                    \cup {Edge("In", RoleRef(n), SubjectRef(r.subject_id), "") : n \in rs})]
    ELSE st

\* ---------------------------------------------------------- label resolution
\* A resolver that selects the sub-table by the category of the source
\* subject of the record.
subject_relation_name_by_source(category_mapping, r) ==
    IF r.subject_id \notin DOMAIN category_mapping THEN KeyError
    ELSE
    LET category == category_mapping[r.subject_id]
    IN IF category \notin DOMAIN SUBJECT_RELATION_CONFIG THEN KeyError
       ELSE IF r.relation_type \notin DOMAIN SUBJECT_RELATION_CONFIG[category]
            THEN (IF category \in DOMAIN CATEGORY_MAPPING
                  THEN CATEGORY_MAPPING[category] ELSE KeyError)
            ELSE SUBJECT_RELATION_CONFIG[category][r.relation_type].cn

\* A resolver without the fallback: an unknown code is a lookup error.
subject_relation_name_no_fallback(category_mapping, r) ==
    IF r.related_subject_id \notin DOMAIN category_mapping THEN KeyError
    ELSE
    LET category == category_mapping[r.related_subject_id]
    IN IF category \notin DOMAIN SUBJECT_RELATION_CONFIG THEN KeyError
       ELSE IF r.relation_type \notin DOMAIN SUBJECT_RELATION_CONFIG[category]
            THEN KeyError
            ELSE SUBJECT_RELATION_CONFIG[category][r.relation_type].cn

\* relation_name of _insert_a_subject_relation, KeyError when a lookup raises.
subject_relation_name(category_mapping, r) ==
    IF r.related_subject_id \notin DOMAIN category_mapping THEN KeyError
    ELSE
    LET category == category_mapping[r.related_subject_id]
    IN IF category \notin DOMAIN SUBJECT_RELATION_CONFIG THEN KeyError
       ELSE IF r.relation_type \notin DOMAIN SUBJECT_RELATION_CONFIG[category]
            THEN (IF category \in DOMAIN CATEGORY_MAPPING
                  THEN CATEGORY_MAPPING[category] ELSE KeyError)
            ELSE SUBJECT_RELATION_CONFIG[category][r.relation_type].cn

\* relation_name of _insert_a_subject_person_relation.
subject_person_relation_name(category_mapping, r) ==
    IF r.subject_id \notin DOMAIN category_mapping THEN KeyError
    ELSE
    LET category == category_mapping[r.subject_id]
    IN IF category \notin DOMAIN SUBJECT_PERSON_CONFIG THEN KeyError
       ELSE IF r.position \notin DOMAIN SUBJECT_PERSON_CONFIG[category] THEN KeyError
            ELSE SUBJECT_PERSON_CONFIG[category][r.position].cn

\* type of _insert_a_subject_character_relation.
subject_character_type(r) ==
    IF r.type \in DOMAIN SUBJECT_CHARACTER_TYPE_MAPPING
    THEN SUBJECT_CHARACTER_TYPE_MAPPING[r.type] ELSE KeyError

\* The arguments of the CREATE of _insert_a_person: type and career.
person_labels_ok(person) ==
    /\ person.type \in DOMAIN PERSON_TYPE_MAPPING
    /\ \A i \in DOMAIN person.career : person.career[i] \in DOMAIN CAREER_MAPPING

\* The role argument of the CREATE of _insert_a_character.
character_role_ok(character) == character.role \in DOMAIN CHARACTER_ROLE_MAPPING

\* ------------------------------------------------------------------ pipeline
StageOrder == <<"CLEAR", "PLATFORMS", "CONSTRAINTS", "SUBJECTS", "PERSONS", "CHARACTERS",
                "SUBJECT_RELATIONS", "SUBJECT_PERSON_RELATIONS",
                "SUBJECT_CHARACTER_RELATIONS", "PERSON_CHARACTER_RELATIONS", "DONE">>
EntityStages == {"SUBJECTS", "PERSONS", "CHARACTERS"}
RelationStages == {"SUBJECT_RELATIONS", "SUBJECT_PERSON_RELATIONS",
                   "SUBJECT_CHARACTER_RELATIONS", "PERSON_CHARACTER_RELATIONS"}
Resting == {"IDLE", "DONE", "ABORTED"}

\* A pipeline that loads the relations of subjects before the characters.
NextStageCharactersLate(stage) ==
    CASE stage = "CLEAR" -> "PLATFORMS"
      [] stage = "PLATFORMS" -> "CONSTRAINTS"
      [] stage = "CONSTRAINTS" -> "SUBJECTS"
      [] stage = "SUBJECTS" -> "PERSONS"
      [] stage = "PERSONS" -> "SUBJECT_RELATIONS"
      [] stage = "SUBJECT_RELATIONS" -> "CHARACTERS"
      [] stage = "CHARACTERS" -> "SUBJECT_PERSON_RELATIONS"
      [] stage = "SUBJECT_PERSON_RELATIONS" -> "SUBJECT_CHARACTER_RELATIONS"
      [] stage = "SUBJECT_CHARACTER_RELATIONS" -> "PERSON_CHARACTER_RELATIONS"
      [] stage = "PERSON_CHARACTER_RELATIONS" -> "DONE"

\* A pipeline that starts the relation files over when the last one is read.
NextStageLooping(stage) ==
    CASE stage = "CLEAR" -> "PLATFORMS"
      [] stage = "PLATFORMS" -> "CONSTRAINTS"
      [] stage = "CONSTRAINTS" -> "SUBJECTS"
      [] stage = "SUBJECTS" -> "PERSONS"
      [] stage = "PERSONS" -> "CHARACTERS"
      [] stage = "CHARACTERS" -> "SUBJECT_RELATIONS"
      [] stage = "SUBJECT_RELATIONS" -> "SUBJECT_PERSON_RELATIONS"
      [] stage = "SUBJECT_PERSON_RELATIONS" -> "SUBJECT_CHARACTER_RELATIONS"
      [] stage = "SUBJECT_CHARACTER_RELATIONS" -> "PERSON_CHARACTER_RELATIONS"
      [] stage = "PERSON_CHARACTER_RELATIONS" -> "SUBJECT_RELATIONS"

\* The statement initilize_database goes on with when a stage is over.
NextStage(stage) ==
    CASE stage = "CLEAR" -> "PLATFORMS"
      [] stage = "PLATFORMS" -> "CONSTRAINTS"
      [] stage = "CONSTRAINTS" -> "SUBJECTS"
      [] stage = "SUBJECTS" -> "PERSONS"
      [] stage = "PERSONS" -> "CHARACTERS"
      [] stage = "CHARACTERS" -> "SUBJECT_RELATIONS"
      [] stage = "SUBJECT_RELATIONS" -> "SUBJECT_PERSON_RELATIONS"
      [] stage = "SUBJECT_PERSON_RELATIONS" -> "SUBJECT_CHARACTER_RELATIONS"
      [] stage = "SUBJECT_CHARACTER_RELATIONS" -> "PERSON_CHARACTER_RELATIONS"
      [] stage = "PERSON_CHARACTER_RELATIONS" -> "DONE"

\* The entity loops guard their insert call too, and go on after a failure.
GuardedEntities(stage) == stage \in EntityStages \/ stage \in RelationStages

\* No loop guards its insert call.
GuardedNowhere(stage) == FALSE

\* Every file loop guards its insert call.
GuardedEverywhere(stage) == stage \in EntityStages \cup RelationStages

\* Whether a record's insert call stands inside try/except: the four relation
\* loops guard it, the entity loops and the setup calls do not.
Guarded(stage) == stage \in RelationStages

\* "if LIMIT is not None and cnt >= LIMIT: break"
CapReached(limit, c) == limit # None /\ c >= limit

\* What a step did: the record it read, how it ended, the label it resolved
\* and whether it called logger.error.
Did(stage, rec, outcome, label, logged) ==
    [stage |-> stage, rec |-> rec, outcome |-> outcome, label |-> label,
     logged |-> logged, changed |-> store' # store]

\* The loop goes on with the next line, or breaks at the cap.
Continue(c, limit, id) ==
    IF CapReached(limit, c)
    THEN pc' = NextStage(pc) /\ cnt' = 0 /\ nread' = 0 /\ seen' = {}
    ELSE pc' = pc /\ cnt' = c /\ nread' = nread + 1 /\ seen' = seen \cup id

\* An exception nothing catches leaves initilize_database.
\* What a step takes from outside: a line of the stage's file (a record, the
\* end of the file, or a line that does not decode) and the store's answer.
Fed(kind, rec, ok) == [stage |-> pc, kind |-> kind, rec |-> rec, ok |-> ok]

\* The first call's inputs are kept, and a second call on the same files
\* takes them back in the same order; the store answers both calls.
Feed(entry) ==
    IF ~replay THEN tape' = tape
    ELSE IF ~entry.ok THEN FALSE
    ELSE IF run = 1 THEN tape' = Append(tape, entry)
    ELSE /\ tape # << >>
         /\ Head(tape).stage = entry.stage /\ Head(tape).kind = entry.kind
         /\ Head(tape).ok = entry.ok /\ Head(tape).rec = entry.rec
         /\ tape' = Tail(tape)

\* The input files are finite.
CanRead ==
    IF replay THEN run = 2 \/ lines < MaxReplayLines ELSE lines < MaxLines

\* A loop that drops the offending line and goes on with the next one.
SkipLine == pc' = pc /\ cnt' = cnt /\ nread' = nread + 1 /\ seen' = seen

\* An exception nothing catches leaves initilize_database.
Abort == pc' = "ABORTED" /\ cnt' = 0 /\ nread' = 0 /\ seen' = {}

\* BangumiDatabase(driver) on an empty database.
Constructed ==
    /\ pc = "IDLE" /\ run = 0 /\ cnt = 0 /\ nread = 0 /\ seen = {} /\ lines = 0
    /\ subject_category_mapping = EmptyDict
    /\ subject_name_mapping = EmptyDict
    /\ person_id_set = {}
    /\ character_name_mapping = EmptyDict
    /\ store = EmptyStore
    /\ adult = {} /\ typeless = {}
    /\ tape = << >> /\ first = EmptyStore
    /\ last = [stage |-> "IDLE", rec |-> << >>, outcome |-> "constructed", label |-> "",
               logged |-> FALSE, changed |-> FALSE]

\* The module as written: ENTITY_LIMIT = None, RELATION_LIMIT = None.
Init == Constructed /\ ENTITY_LIMIT = None /\ RELATION_LIMIT = None /\ replay = FALSE

\* The module as written, called twice on the same input files.
InitTwice == Constructed /\ ENTITY_LIMIT = None /\ RELATION_LIMIT = None /\ replay = TRUE

\* The module with record caps configured.
InitCaps ==
    Constructed /\ ENTITY_LIMIT \in Limits /\ RELATION_LIMIT \in Limits /\ replay = FALSE

\* The module with both caps set to a positive number of records.
InitPositiveCaps ==
    Constructed /\ ENTITY_LIMIT \in 1..MaxCap /\ RELATION_LIMIT \in 1..MaxCap /\ replay = FALSE

\* initilize_database is called: on the fresh object (StartRun, as __main__
\* does) or again on an object an earlier call has used (Rerun).
Call ==
    /\ pc' = "CLEAR" /\ run' = run + 1
    /\ cnt' = 0 /\ nread' = 0 /\ seen' = {}
    /\ adult' = {} /\ typeless' = {}
    /\ first' = IF replay THEN store ELSE first
    /\ UNCHANGED <<lines, limits, index, store, replay, tape>>
    /\ last' = Did("START", << >>, "called", "", FALSE)

StartRun == pc = "IDLE" /\ Call

Rerun ==
    /\ pc \in {"DONE", "ABORTED"} /\ run < MaxRuns /\ (replay => run = 1)
    /\ Call

\* clear_database: person_id_set is reset, then the store is emptied.
clear_database ==
    /\ pc = "CLEAR"
    /\ person_id_set' = {}
    /\ \E ok \in BOOLEAN :
          Feed(Fed("step", << >>, ok)) /\
          IF ok
          THEN /\ store' = DetachDeleteAll(store)
               /\ pc' = NextStage(pc)
               /\ last' = Did(pc, << >>, "cleared", "", FALSE)
          ELSE /\ store' = store
               /\ pc' = "ABORTED"
               /\ last' = Did(pc, << >>, "store_error", "", FALSE)
    /\ UNCHANGED <<run, cnt, nread, seen, lines, limits, subject_category_mapping,
                   subject_name_mapping, character_name_mapping, adult, typeless, replay, first>>

\* _insert_a_platform for the next platform of PLATFORM_CONFIG.
insert_a_platform ==
    /\ pc = "PLATFORMS"
    /\ LET platform == PLATFORM_CONFIG[nread + 1]
           known == platform.category \in DOMAIN CATEGORY_MAPPING
       IN \E ok \in BOOLEAN :
            Feed(Fed("step", << >>, ok)) /\
            IF ok /\ known
            THEN /\ store' = CreatePlatform(store, platform, platform.category,
                                 CATEGORY_MAPPING[platform.category] \o "/" \o platform.type_cn)
                 /\ IF nread + 1 = Len(PLATFORM_CONFIG)
                    THEN pc' = NextStage(pc) /\ nread' = 0
                    ELSE pc' = pc /\ nread' = nread + 1
                 /\ last' = Did(pc, platform, "inserted", "", FALSE)
            ELSE /\ store' = store
                 /\ pc' = "ABORTED" /\ nread' = 0
                 /\ last' = Did(pc, platform, "store_error", "", FALSE)
    /\ UNCHANGED <<run, cnt, seen, lines, limits, index, adult, typeless, replay, first>>

\* _initliaze_constraints: each constraint is created when SHOW CONSTRAINTS
\* does not list it; a store error leaves the ones ensured before it.
initliaze_constraints ==
    /\ pc = "CONSTRAINTS"
    /\ \E k \in 0..Len(ConstraintNames) :
          /\ Feed(Fed("step", <<k>>, k = Len(ConstraintNames)))
          /\ store' = [store EXCEPT !.constraints =
                           @ \cup {ConstraintNames[i] : i \in 1..k}]
          /\ IF k = Len(ConstraintNames)
             THEN pc' = NextStage(pc) /\ last' = Did(pc, << >>, "ensured", "", FALSE)
             ELSE pc' = "ABORTED" /\ last' = Did(pc, << >>, "store_error", "", FALSE)
    /\ UNCHANGED <<run, cnt, nread, seen, lines, limits, index, adult, typeless, replay, first>>

\* The end of the file of the current stage.
EndOfFile ==
    /\ pc \in EntityStages \cup RelationStages
    /\ pc' = NextStage(pc) /\ cnt' = 0 /\ nread' = 0 /\ seen' = {}
    /\ UNCHANGED <<run, lines, limits, index, store, adult, typeless, replay, first>>
    /\ Feed(Fed("eof", << >>, TRUE))
    /\ last' = Did(pc, << >>, "eof", "", FALSE)

\* json.loads or the dataclass constructor raises on the next line.
DecodeError ==
    /\ pc \in EntityStages \cup RelationStages
    /\ CanRead /\ lines' = lines + 1
    /\ Abort
    /\ UNCHANGED <<run, limits, index, store, adult, typeless, replay, first>>
    /\ Feed(Fed("decode_error", << >>, TRUE))
    /\ last' = Did(pc, << >>, "decode_error", "", FALSE)

\* A failure of the insert call of an entity loop: nothing catches it, so it
\* leaves initilize_database; were it caught, the loop would count the record.
EntityFailure(rec, outcome) ==
    /\ store' = store
    /\ IF Guarded(pc)
       THEN Continue(cnt + 1, ENTITY_LIMIT, {rec.id}) /\ last' = Did(pc, rec, outcome, "", TRUE)
       ELSE Abort /\ last' = Did(pc, rec, outcome, "", FALSE)

\* "if subject.nsfw: return"
subject_is_dropped(subject) == subject.nsfw

\* A person loader that lets persons without a type through.
person_never_dropped(person) == FALSE

\* "if person.type == 0: ... return"
person_is_dropped(person) == person.type = 0

\* One iteration of the subject loop: _insert_a_subject, then the cap.
insert_a_subject ==
    /\ pc = "SUBJECTS"
    /\ CanRead /\ lines' = lines + 1
    /\ \E subject \in Subject, ok \in BOOLEAN :
          /\ subject.id \notin seen
          /\ Feed(Fed("record", subject, ok))
          /\ adult' = adult \cup (IF subject.nsfw THEN {subject.id} ELSE {})
          /\ IF subject_is_dropped(subject)
             THEN /\ UNCHANGED <<subject_category_mapping, subject_name_mapping, store>>
                  /\ Continue(cnt + 1, ENTITY_LIMIT, {subject.id})
                  /\ last' = Did(pc, subject, "dropped", "", FALSE)
             ELSE /\ subject_category_mapping' =
                         DictSet(subject_category_mapping, subject.id, subject.type)
                  /\ subject_name_mapping' =
                         DictSet(subject_name_mapping, subject.id, subject.name)
                  /\ IF ok /\ ~UniqueViolation(store, "unique_subject_id",
                                               store.subjects, subject.id)
                     THEN /\ store' = CreateSubject(store, subject)
                          /\ Continue(cnt + 1, ENTITY_LIMIT, {subject.id})
                          /\ last' = Did(pc, subject, "inserted", "", FALSE)
                     ELSE EntityFailure(subject, "store_error")
    /\ UNCHANGED <<run, limits, person_id_set, character_name_mapping, typeless, replay, first>>

\* One iteration of the person loop: _insert_a_person, then the cap.
insert_a_person ==
    /\ pc = "PERSONS"
    /\ CanRead /\ lines' = lines + 1
    /\ \E person \in Person, ok \in BOOLEAN :
          /\ person.id \notin seen
          /\ Feed(Fed("record", person, ok))
          /\ typeless' = typeless \cup (IF person.type = 0 THEN {person.id} ELSE {})
          /\ IF person_is_dropped(person)
             THEN /\ UNCHANGED <<person_id_set, store>>
                  /\ Continue(cnt + 1, ENTITY_LIMIT, {person.id})
                  /\ last' = Did(pc, person, "dropped", "", FALSE)
             ELSE /\ person_id_set' = person_id_set \cup {person.id}
                  /\ IF ~person_labels_ok(person)
                     THEN EntityFailure(person, "lookup_error")
                     ELSE IF ok /\ ~UniqueViolation(store, "unique_person_id",
                                                    store.persons, person.id)
                     THEN /\ store' = CreatePerson(store, person)
                          /\ Continue(cnt + 1, ENTITY_LIMIT, {person.id})
                          /\ last' = Did(pc, person, "inserted", "", FALSE)
                     ELSE EntityFailure(person, "store_error")
    /\ UNCHANGED <<run, limits, subject_category_mapping, subject_name_mapping,
                   character_name_mapping, adult, replay, first>>

\* One iteration of the character loop: _insert_a_character, then the cap.
insert_a_character ==
    /\ pc = "CHARACTERS"
    /\ CanRead /\ lines' = lines + 1
    /\ \E character \in Character, ok \in BOOLEAN :
          /\ character.id \notin seen
          /\ Feed(Fed("record", character, ok))
          /\ character_name_mapping' =
                 DictSet(character_name_mapping, character.id, character.name)
          /\ IF ~character_role_ok(character)
             THEN EntityFailure(character, "lookup_error")
             ELSE IF ok /\ ~UniqueViolation(store, "unique_character_id",
                                            store.characters, character.id)
             THEN /\ store' = CreateCharacter(store, character)
                  /\ Continue(cnt + 1, ENTITY_LIMIT, {character.id})
                  /\ last' = Did(pc, character, "inserted", "", FALSE)
             ELSE EntityFailure(character, "store_error")
    /\ UNCHANGED <<run, limits, subject_category_mapping, subject_name_mapping,
                   person_id_set, adult, typeless, replay, first>>

\* ------------------------------------------- the Reference Index filters
subject_relation_passes(r) ==
    /\ r.subject_id \in DOMAIN subject_category_mapping
    /\ r.related_subject_id \in DOMAIN subject_category_mapping

\* A filter that forgets the person end of the record.
subject_person_relation_passes_subject_only(r) ==
    r.subject_id \in DOMAIN subject_category_mapping

subject_person_relation_passes(r) ==
    /\ r.subject_id \in DOMAIN subject_category_mapping
    /\ r.person_id \in person_id_set

subject_character_relation_passes(r) ==
    /\ r.subject_id \in DOMAIN subject_category_mapping
    /\ r.character_id \in DOMAIN character_name_mapping

\* A person-character filter that does not look at the subject of the record.
person_character_relation_passes_any_subject(r) ==
    /\ r.person_id \in person_id_set
    /\ r.character_id \in DOMAIN character_name_mapping

person_character_relation_passes(r) ==
    /\ r.person_id \in person_id_set
    /\ r.character_id \in DOMAIN character_name_mapping
    /\ r.subject_id \in DOMAIN subject_name_mapping

\* A loop that counts the records its filter rejects.
FilteredCounted(r) ==
    /\ store' = store
    /\ pc' = pc /\ cnt' = cnt + 1 /\ nread' = nread + 1 /\ seen' = seen
    /\ last' = Did(pc, r, "filtered", "", FALSE)

\* A record the filter rejects: the loop goes to the next line, cnt untouched.
Filtered(r) ==
    /\ store' = store
    /\ pc' = pc /\ cnt' = cnt /\ nread' = nread + 1 /\ seen' = seen
    /\ last' = Did(pc, r, "filtered", "", FALSE)

\* A record that passed the filter: the insert call inside try/except, then
\* cnt += 1 and the cap.  label is what the resolver gave, written the store
\* after the statement.
Attempt(r, label, ok, written) ==
    IF label # KeyError /\ ok
    THEN /\ store' = written
         /\ Continue(cnt + 1, RELATION_LIMIT, {})
         /\ last' = Did(pc, r, "written", label, FALSE)
    ELSE /\ store' = store
         /\ IF Guarded(pc)
            THEN /\ Continue(cnt + 1, RELATION_LIMIT, {})
                 /\ last' = Did(pc, r, IF label = KeyError THEN "lookup_error"
                                       ELSE "store_error", label, TRUE)
            ELSE /\ Abort
                 /\ last' = Did(pc, r, IF label = KeyError THEN "lookup_error"
                                       ELSE "store_error", label, FALSE)

insert_a_subject_relation ==
    /\ pc = "SUBJECT_RELATIONS" /\ CanRead /\ lines' = lines + 1
    /\ \E r \in SubjectRelation, ok \in BOOLEAN :
          Feed(Fed("record", r, ok)) /\
          IF subject_relation_passes(r)
          THEN LET relation_name == subject_relation_name(subject_category_mapping, r)
               IN Attempt(r, relation_name, ok,
                          MergeSubjectRelation(store, r, relation_name))
          ELSE Filtered(r)
    /\ UNCHANGED <<run, limits, index, adult, typeless, replay, first>>

insert_a_subject_person_relation ==
    /\ pc = "SUBJECT_PERSON_RELATIONS" /\ CanRead /\ lines' = lines + 1
    /\ \E r \in SubjectPersonRelation, ok \in BOOLEAN :
          Feed(Fed("record", r, ok)) /\
          IF subject_person_relation_passes(r)
          THEN LET relation_name == subject_person_relation_name(subject_category_mapping, r)
               IN Attempt(r, relation_name, ok,
                          MergeSubjectPersonRelation(store, r, relation_name))
          ELSE Filtered(r)
    /\ UNCHANGED <<run, limits, index, adult, typeless, replay, first>>

\* A subject-character loop that repairs the index: a record that names an
\* unknown character has the character entered under an empty name.
insert_a_subject_character_relation_indexing ==
    /\ pc = "SUBJECT_CHARACTER_RELATIONS" /\ CanRead /\ lines' = lines + 1
    /\ \E r \in SubjectCharacterRelation, ok \in BOOLEAN :
          Feed(Fed("record", r, ok)) /\
          IF subject_character_relation_passes(r)
          THEN /\ LET type == subject_character_type(r)
                  IN Attempt(r, type, ok, MergeAppearsIn(store, r, type))
               /\ UNCHANGED character_name_mapping
          ELSE /\ Filtered(r)
               /\ character_name_mapping' =
                      DictSet(character_name_mapping, r.character_id, "")
    /\ UNCHANGED <<run, limits, subject_category_mapping, subject_name_mapping,
                   person_id_set, adult, typeless, replay, first>>

insert_a_subject_character_relation ==
    /\ pc = "SUBJECT_CHARACTER_RELATIONS" /\ CanRead /\ lines' = lines + 1
    /\ \E r \in SubjectCharacterRelation, ok \in BOOLEAN :
          Feed(Fed("record", r, ok)) /\
          IF subject_character_relation_passes(r)
          THEN LET type == subject_character_type(r)
               IN Attempt(r, type, ok, MergeAppearsIn(store, r, type))
          ELSE Filtered(r)
    /\ UNCHANGED <<run, limits, index, adult, typeless, replay, first>>

insert_a_person_character_relation ==
    /\ pc = "PERSON_CHARACTER_RELATIONS" /\ CanRead /\ lines' = lines + 1
    /\ \E r \in PersonCharacterRelation, ok \in BOOLEAN :
          Feed(Fed("record", r, ok)) /\
          IF person_character_relation_passes(r)
          THEN IF /\ r.character_id \in DOMAIN character_name_mapping
                  /\ r.subject_id \in DOMAIN subject_name_mapping
               THEN LET character_name == character_name_mapping[r.character_id]
                        subject_name == subject_name_mapping[r.subject_id]
                    IN Attempt(r, RoleLabel(character_name, subject_name), ok,
                               MergeRolePerformance(store, r, character_name, subject_name))
               ELSE Attempt(r, KeyError, ok, store)
          ELSE Filtered(r)
    /\ UNCHANGED <<run, limits, index, adult, typeless, replay, first>>

Next ==
    \/ StartRun
    \/ clear_database
    \/ insert_a_platform
    \/ initliaze_constraints
    \/ insert_a_subject
    \/ insert_a_person
    \/ insert_a_character
    \/ insert_a_subject_relation
    \/ insert_a_subject_person_relation
    \/ insert_a_subject_character_relation
    \/ insert_a_person_character_relation
    \/ EndOfFile
    \/ DecodeError

NextRerun == Next \/ Rerun

\* __main__: one call on a fresh object, the limits as written.
Spec == Init /\ [][Next]_vars

\* initilize_database called up to MaxRuns times on the same object.
SpecRerun == Init /\ [][NextRerun]_vars

\* One call on a fresh object, with record caps configured.
SpecCaps == InitCaps /\ [][Next]_vars

\* One call of initilize_database with both caps positive.
SpecPositiveCaps == InitPositiveCaps /\ [][Next]_vars

\* __main__ as a running process: a statement that can be executed is
\* executed (the interpreter does not stop on its own).
SpecLive == Init /\ [][Next]_vars /\ WF_vars(Next)

\* Two calls on the same object, the second on the input files of the first
\* and with a store that answers as it did in the first.
SpecTwice == InitTwice /\ [][NextRerun]_vars

\* ===================================================================
\* Properties
\* ===================================================================
Edges == DOMAIN store.edges
Touches(e, ref) == e.src = ref \/ e.dst = ref
EmptyIndex ==
    /\ DOMAIN subject_category_mapping = {}
    /\ DOMAIN subject_name_mapping = {}
    /\ person_id_set = {}
    /\ DOMAIN character_name_mapping = {}
ReadARecord(l) == l.outcome \notin {"eof", "decode_error"}

\* C1: a subject whose record of this run carries the adult flag has no
\* Subject node, is a key of neither subject_category_mapping nor
\* subject_name_mapping, and no relationship of the store (BELONG_TO,
\* SubjectRelation, SubjectPersonRelation, AppearsIn, In) has it as an end.
C1_AdultSubjectsExcluded ==
    \A id \in adult :
        /\ id \notin DOMAIN store.subjects
        /\ id \notin DOMAIN subject_category_mapping
        /\ id \notin DOMAIN subject_name_mapping
        /\ \A e \in Edges : ~Touches(e, SubjectRef(id))

\* C2: a person whose record of this run has type 0 has no Person node and is
\* not in person_id_set, no relationship of the store has it as an end, and a
\* subject-person or person-character record that names it is filtered.
C2_TypelessPersonsExcluded ==
    /\ \A id \in typeless :
          /\ id \notin DOMAIN store.persons
          /\ id \notin person_id_set
          /\ \A e \in Edges : ~Touches(e, PersonRef(id))
    /\ (/\ last.stage \in {"SUBJECT_PERSON_RELATIONS", "PERSON_CHARACTER_RELATIONS"}
        /\ ReadARecord(last)
        /\ last.rec.person_id \in typeless)
       => (last.outcome = "filtered" /\ ~last.changed)

\* C2 witness: a person-character record naming a type-0 person was filtered
\* although its character and its subject are indexed.
C2_Witness ==
    /\ last.stage = "PERSON_CHARACTER_RELATIONS" /\ last.outcome = "filtered"
    /\ last.rec.person_id \in typeless
    /\ last.rec.character_id \in DOMAIN character_name_mapping
    /\ last.rec.subject_id \in DOMAIN subject_name_mapping

\* Whether every id a relation record names is in the table its stage consults.
AllIndexed(stage, r) ==
    CASE stage = "SUBJECT_RELATIONS" ->
            /\ r.subject_id \in DOMAIN subject_category_mapping
            /\ r.related_subject_id \in DOMAIN subject_category_mapping
      [] stage = "SUBJECT_PERSON_RELATIONS" ->
            /\ r.subject_id \in DOMAIN subject_category_mapping
            /\ r.person_id \in person_id_set
      [] stage = "SUBJECT_CHARACTER_RELATIONS" ->
            /\ r.subject_id \in DOMAIN subject_category_mapping
            /\ r.character_id \in DOMAIN character_name_mapping
      [] stage = "PERSON_CHARACTER_RELATIONS" ->
            /\ r.person_id \in person_id_set
            /\ r.character_id \in DOMAIN character_name_mapping
            /\ r.subject_id \in DOMAIN subject_name_mapping

\* C3: a step of a relation stage that reads a record naming an id absent from
\* the table consulted for it attempts no store operation, leaves the store as
\* it is, logs no error, does not count the record and stays in the stage.
C3_UnindexedRecordsSkipped ==
    [][(/\ pc \in RelationStages
        /\ ReadARecord(last')
        /\ ~AllIndexed(pc, last'.rec))
       => (/\ last'.outcome = "filtered" /\ ~last'.logged
           /\ store' = store
           /\ pc' = pc /\ cnt' = cnt)]_vars

\* C3 witness: a subject-person record whose subject is indexed and whose
\* person is not was skipped, after a record of the same file was written.
C3_Witness ==
    /\ last.stage = "SUBJECT_PERSON_RELATIONS" /\ last.outcome = "filtered"
    /\ last.rec.subject_id \in DOMAIN subject_category_mapping
    /\ last.rec.person_id \notin person_id_set
    /\ pc = "SUBJECT_PERSON_RELATIONS" /\ cnt = 1
    /\ \E e \in Edges : e.kind = "SubjectPersonRelation"

\* C4: when the SUBJECTS stage of a run begins, the four tables of the
\* Reference Index are empty.
C4_IndexEmptyWhenSubjectsBegin ==
    (pc = "SUBJECTS" /\ last.stage = "CONSTRAINTS") => EmptyIndex

\* The characters and subjects a RolePerformance node points at, and the
\* nodes that stand for a (person, character, subject) triple.
Played(p, n) == Edge("Played", PersonRef(p), RoleRef(n), "")
AsCharacter(n, c) == Edge("AsCharacter", RoleRef(n), CharacterRef(c), "")
In(n, s) == Edge("In", RoleRef(n), SubjectRef(s), "")
CharactersOf(n) == {c \in Ids : AsCharacter(n, c) \in Edges}
SubjectsOf(n) == {s \in Ids : In(n, s) \in Edges}
NodesFor(p, c, s) ==
    {n \in store.roles :
        Played(p, n) \in Edges /\ AsCharacter(n, c) \in Edges /\ In(n, s) \in Edges}

\* C5: person-character records that differ in character or subject are
\* written to distinct RolePerformance nodes with distinct role labels: no
\* node points at two characters or at two subjects, and no two nodes carry
\* the same role.
C5_RolePerformancePerPair ==
    /\ \A n \in store.roles :
          Cardinality(CharactersOf(n)) <= 1 /\ Cardinality(SubjectsOf(n)) <= 1
    /\ \A n1 \in store.roles, n2 \in store.roles :
          n1 # n2 => n1.role # n2.role

\* C6: at most one RolePerformance node stands for a (person, character,
\* subject) triple, with one Played, one AsCharacter and one In relationship;
\* and a person-character record that was written, for the first time or
\* again, leaves exactly one such node for its triple.
C6_OneRolePerformancePerTriple ==
    /\ \A p \in Ids, c \in Ids, s \in Ids :
          /\ Cardinality(NodesFor(p, c, s)) <= 1
          /\ \A n \in NodesFor(p, c, s) :
                /\ store.edges[Played(p, n)] = 1
                /\ store.edges[AsCharacter(n, c)] = 1
                /\ store.edges[In(n, s)] = 1
    /\ (last.stage = "PERSON_CHARACTER_RELATIONS" /\ last.outcome = "written")
       => Cardinality(NodesFor(last.rec.person_id, last.rec.character_id,
                               last.rec.subject_id)) = 1

\* C6 witness: a person-character record was written and changed nothing,
\* its node standing for its triple alone: the triple was ingested before.
C6_Witness ==
    /\ last.stage = "PERSON_CHARACTER_RELATIONS" /\ last.outcome = "written"
    /\ ~last.changed /\ cnt = 2
    /\ \E n \in NodesFor(last.rec.person_id, last.rec.character_id, last.rec.subject_id) :
          /\ store.roles = {n}
          /\ CharactersOf(n) = {last.rec.character_id}
          /\ SubjectsOf(n) = {last.rec.subject_id}

\* The subject-relation step just taken resolved a label for a code that the
\* sub-table of the related subject's category does not hold.
FellBack(l) ==
    /\ l.stage = "SUBJECT_RELATIONS"
    /\ l.outcome \in {"written", "store_error", "lookup_error"}
    /\ LET category == subject_category_mapping[l.rec.related_subject_id]
       IN \/ category \notin DOMAIN SUBJECT_RELATION_CONFIG
          \/ l.rec.relation_type \notin DOMAIN SUBJECT_RELATION_CONFIG[category]
PlainLabel(l, category) ==
    /\ l.label # KeyError /\ l.outcome # "lookup_error"
    /\ category \in DOMAIN CATEGORY_MAPPING
    /\ l.label = CATEGORY_MAPPING[category]

\* C7 as stated: whatever category the related subject was indexed with, a
\* code absent from that category's sub-table resolves to the category's plain
\* label and raises nothing.
C7_FallbackForEveryCategory ==
    FellBack(last) =>
        PlainLabel(last, subject_category_mapping[last.rec.related_subject_id])

\* C7 amended: when the related subject's category is one of the categories
\* the tables know (1, 2, 3, 4, 6), a code absent from that category's
\* sub-table resolves to the category's plain label and raises nothing.
C7_FallbackForKnownCategories ==
    LET category == subject_category_mapping[last.rec.related_subject_id]
    IN (/\ FellBack(last)
        /\ category \in DOMAIN SUBJECT_RELATION_CONFIG
        /\ category \in DOMAIN CATEGORY_MAPPING)
       => PlainLabel(last, category)

\* C7 witness: code 2 is not in the sub-table of category 1; a relation to a
\* subject of category 1 was written with the plain label of category 1.
C7_Witness ==
    /\ FellBack(last) /\ last.outcome = "written" /\ last.changed
    /\ subject_category_mapping[last.rec.related_subject_id] = 1
    /\ last.rec.relation_type = 2
    /\ last.label = "shuji"
    /\ Edge("SubjectRelation", SubjectRef(last.rec.subject_id),
            SubjectRef(last.rec.related_subject_id), "shuji") \in Edges

\* C8: the stage changes only to the next stage of the order CLEAR, ...,
\* DONE (or to the aborted state, or from rest into CLEAR at a call); every
\* step works on the file of the stage the run is in; the Reference Index
\* grows only in the entity stages and relationships between entities are
\* written only in the relation stages, which come after them.
Follows(a, b) ==
    \E i \in 1..(Len(StageOrder) - 1) : StageOrder[i] = a /\ StageOrder[i + 1] = b
Before(a, b) ==
    \E i \in 1..Len(StageOrder), j \in 1..Len(StageOrder) :
        i < j /\ StageOrder[i] = a /\ StageOrder[j] = b
RelationKinds == {"SubjectRelation", "SubjectPersonRelation", "AppearsIn",
                  "Played", "AsCharacter", "In"}
C8_StagesInOrder ==
    [][/\ pc' # pc => \/ Follows(pc, pc')
                      \/ pc' = "ABORTED" /\ pc \notin Resting
                      \/ pc \in Resting /\ pc' = "CLEAR"
       /\ pc \notin Resting => last'.stage = pc
       /\ (\E e \in DOMAIN store'.edges :
                e.kind \in RelationKinds /\ e \notin DOMAIN store.edges)
             => /\ pc \in RelationStages
                /\ \A stage \in EntityStages : Before(stage, pc)
       /\ (\/ DOMAIN subject_category_mapping' # DOMAIN subject_category_mapping
           \/ ~(person_id_set' \subseteq person_id_set)
           \/ DOMAIN character_name_mapping' # DOMAIN character_name_mapping)
             => pc \in EntityStages]_vars

\* C8 witness: a run went through every stage to DONE and wrote a relation.
C8_Witness ==
    /\ pc = "DONE" /\ last.stage = "PERSON_CHARACTER_RELATIONS"
    /\ \E e \in Edges : e.kind = "AppearsIn"
    /\ DOMAIN subject_category_mapping # {} /\ DOMAIN character_name_mapping # {}

\* C9: a step of a relation stage whose record passed the filter and whose
\* insert call failed (store error or lookup error) logs the error, leaves
\* the store and the Reference Index as they were, and stays in the stage,
\* the record counted, so that the next line is read as after any record.
C9_RelationFailuresIsolated ==
    [][(pc \in RelationStages /\ last'.outcome \in {"store_error", "lookup_error"})
       => (/\ last'.logged
           /\ store' = store /\ index' = index
           /\ pc' = pc /\ cnt' = cnt + 1)]_vars

\* C9 witness: the first record of the subject-relation file that passed the
\* filter failed and left no relationship; the second one was then written.
C9_Witness ==
    /\ pc = "SUBJECT_RELATIONS" /\ last.stage = "SUBJECT_RELATIONS"
    /\ last.outcome = "written" /\ last.changed /\ cnt = 2
    /\ Cardinality({e \in Edges : e.kind = "SubjectRelation"}) = 1

\* C10: a store error in the clear, platform, constraint, subject, person or
\* character stage ends the call: the run is aborted, nothing is logged or
\* written for the record, and no step follows the aborted state.
C10_EntityFailuresAbort ==
    [][/\ (/\ pc \in {"CLEAR", "PLATFORMS", "CONSTRAINTS"} \cup EntityStages
           /\ last'.outcome = "store_error")
          => (pc' = "ABORTED" /\ ~last'.logged)
       /\ pc # "ABORTED"]_vars

\* C10 witness: the store failed on the second person; the run is aborted
\* with the first person in the store and no character read.
C10_Witness ==
    /\ pc = "ABORTED" /\ last.stage = "PERSONS" /\ last.outcome = "store_error"
    /\ DOMAIN store.persons # {}
    /\ DOMAIN character_name_mapping = {} /\ store.roles = {}

\* C11: a code missing from a fixed dictionary (person type, career,
\* character role, subject-character type) is fatal to its record only: the
\* lookup error is logged, the record writes nothing, and the run is not
\* aborted.
C11_LookupErrorsFatalToRecordOnly ==
    [][(last'.outcome = "lookup_error" /\ last'.stage = pc)
       => (last'.logged /\ store' = store /\ pc' # "ABORTED")]_vars

\* The store holds no node and no relationship twice.
NoDuplicates(st) ==
    /\ \A id \in DOMAIN st.subjects : st.subjects[id] = 1
    /\ \A id \in DOMAIN st.persons : st.persons[id] = 1
    /\ \A id \in DOMAIN st.characters : st.characters[id] = 1
    /\ \A p \in DOMAIN st.platforms : st.platforms[p] = 1
    /\ \A e \in DOMAIN st.edges : st.edges[e] = 1

\* C12: a second call of initilize_database on the same input files goes
\* through the same lines as the first (it is never stuck before the end of
\* the input), and when it is over the store holds the same nodes and
\* relationships as after the first call, none of them twice.
C12_SecondRunSameStore ==
    (replay /\ run = 2) =>
        /\ pc \notin Resting
             => (tape # << >> /\ Head(tape).stage = pc /\ ENABLED Next)
        /\ pc \in Resting
             => (tape = << >> /\ store = first /\ NoDuplicates(store))

\* C12 witness: the second call is over; both calls created two subjects and
\* merged a relation between them, and the store is as the first call left it.
C12_Witness ==
    /\ replay /\ run = 2 /\ pc = "DONE" /\ tape = << >>
    /\ store = first
    /\ Cardinality(DOMAIN store.subjects) = 2
    /\ \E e \in Edges : e.kind = "SubjectRelation"

\* The relationship a written record of the subject-relation, subject-person
\* or subject-character stage stands for: its kind, its two end nodes and
\* the label the step resolved.
KeyedKinds == {"SubjectRelation", "SubjectPersonRelation", "AppearsIn"}
EdgeOf(l) ==
    CASE l.stage = "SUBJECT_RELATIONS" ->
            Edge("SubjectRelation", SubjectRef(l.rec.subject_id),
                 SubjectRef(l.rec.related_subject_id), l.label)
      [] l.stage = "SUBJECT_PERSON_RELATIONS" ->
            Edge("SubjectPersonRelation", SubjectRef(l.rec.subject_id),
                 PersonRef(l.rec.person_id), l.label)
      [] l.stage = "SUBJECT_CHARACTER_RELATIONS" ->
            Edge("AppearsIn", CharacterRef(l.rec.character_id),
                 SubjectRef(l.rec.subject_id), l.label)

\* C13: the store never holds a relationship of the three kinds twice for
\* one (kind, source, target, label); a written record leaves its own
\* relationship in the store, once, and every relationship that was there
\* stays, so that the same end nodes with another label give another
\* relationship.
C13_RelationsMergedByEndsAndLabel ==
    [][/\ \A e \in DOMAIN store'.edges :
             e.kind \in KeyedKinds => store'.edges[e] = 1
       /\ (/\ pc \in {"SUBJECT_RELATIONS", "SUBJECT_PERSON_RELATIONS",
                      "SUBJECT_CHARACTER_RELATIONS"}
           /\ last'.outcome = "written")
          => /\ EdgeOf(last') \in DOMAIN store'.edges
             /\ DOMAIN store.edges \subseteq DOMAIN store'.edges
             /\ DOMAIN store'.edges \subseteq DOMAIN store.edges \cup {EdgeOf(last')}
             /\ last'.changed <=> EdgeOf(last') \notin DOMAIN store.edges]_vars

\* C13 witness: a record was written a second time and changed nothing, and
\* the store holds two relationships between the same two subjects, with
\* different labels.
C13_Witness ==
    /\ last.stage = "SUBJECT_RELATIONS" /\ last.outcome = "written" /\ ~last.changed
    /\ \E e1 \in Edges, e2 \in Edges :
          /\ e1.kind = "SubjectRelation" /\ e2.kind = "SubjectRelation"
          /\ e1.src = e2.src /\ e1.dst = e2.dst /\ e1.type # e2.type
          /\ store.edges[e1] = 1 /\ store.edges[e2] = 1

\* C14: Platform nodes are written in the PLATFORMS stage only: no step of a
\* later stage changes the Platform nodes of the store, whatever platform id
\* and category a subject carries.
C14_PlatformsOnlyFromConfig ==
    [][pc \notin {"CLEAR", "PLATFORMS"} => store'.platforms = store.platforms]_vars

\* The display string the taxonomy table holds for a code in the sub-table of
\* a category, "" when the table has no such entry.
Configured(table, category, code) ==
    IF category \in DOMAIN table
    THEN IF code \in DOMAIN table[category] THEN table[category][code].cn ELSE ""
    ELSE ""

\* C15: a subject-relation record whose code is in the sub-table of the
\* RELATED subject's category is labelled with that sub-table's string, and
\* a subject-person record whose position is in the sub-table of the
\* SUBJECT's category with that sub-table's string; no lookup error is
\* raised, and a written record leaves exactly one relationship with the
\* label.
C15_SubTableByRightCategory ==
    [][/\ (pc = "SUBJECT_RELATIONS" /\ ReadARecord(last') /\ last'.outcome # "filtered")
          => LET cn == Configured(SUBJECT_RELATION_CONFIG,
                           subject_category_mapping[last'.rec.related_subject_id],
                           last'.rec.relation_type)
             IN cn # "" =>
                  /\ last'.label = cn /\ last'.outcome # "lookup_error"
                  /\ last'.outcome = "written" =>
                        /\ EdgeOf(last') \in DOMAIN store'.edges
                        /\ store'.edges[EdgeOf(last')] = 1
                        /\ EdgeOf(last').type = cn
       /\ (pc = "SUBJECT_PERSON_RELATIONS" /\ ReadARecord(last')
              /\ last'.outcome # "filtered")
          => LET cn == Configured(SUBJECT_PERSON_CONFIG,
                           subject_category_mapping[last'.rec.subject_id],
                           last'.rec.position)
             IN cn # "" =>
                  /\ last'.label = cn /\ last'.outcome # "lookup_error"
                  /\ last'.outcome = "written" =>
                        /\ EdgeOf(last') \in DOMAIN store'.edges
                        /\ store'.edges[EdgeOf(last')] = 1
                        /\ EdgeOf(last').type = cn]_vars

\* C15 witness: a subject of category 1 was related to a subject of category
\* 2 with code 2, which only the sub-table of category 2 holds; the one
\* relationship of the store carries that sub-table's string.
C15_Witness ==
    /\ last.stage = "SUBJECT_RELATIONS" /\ last.outcome = "written" /\ last.changed
    /\ subject_category_mapping[last.rec.subject_id] = 1
    /\ subject_category_mapping[last.rec.related_subject_id] = 2
    /\ last.rec.relation_type = 2
    /\ {e \in Edges : e.kind = "SubjectRelation"} =
          {Edge("SubjectRelation", SubjectRef(last.rec.subject_id),
                SubjectRef(last.rec.related_subject_id), "qianzhuan")}

\* The step handed its record to the Graph Writer (the insert call went as
\* far as its store statement or its label lookups).
Handed(l) == l.outcome \in {"inserted", "written", "store_error", "lookup_error"}

\* C16: with a cap N configured for a stage, whatever N >= 0 is, the stage
\* hands at most N records to the Graph Writer: a record is handed only while
\* fewer than N records of the stage were counted, and once N are counted the
\* run leaves the stage.
C16_AtMostCapRecords ==
    [][/\ (pc \in EntityStages /\ ENTITY_LIMIT # None /\ Handed(last'))
          => (cnt < ENTITY_LIMIT /\ (cnt + 1 >= ENTITY_LIMIT => pc' # pc))
       /\ (pc \in RelationStages /\ RELATION_LIMIT # None /\ Handed(last'))
          => (cnt < RELATION_LIMIT /\ (cnt + 1 >= RELATION_LIMIT => pc' # pc))]_vars

\* C17: a line that does not decode, in an entity file or in a relation
\* file, is not caught by the guard of the relation loops: the run is aborted
\* at that line with nothing logged, written or indexed for it, and no step
\* follows the aborted state.
C17_DecodeErrorsAbort ==
    [][/\ (last'.outcome = "decode_error" /\ last'.stage = pc)
          => /\ pc' = "ABORTED" /\ ~last'.logged
             /\ store' = store /\ index' = index
       /\ pc # "ABORTED"]_vars

\* C17 witness: the second line of the subject-relation file did not decode;
\* the run is aborted with the relationship of the first line in the store
\* and nothing from a later stage.
C17_Witness ==
    /\ pc = "ABORTED" /\ last.stage = "SUBJECT_RELATIONS"
    /\ last.outcome = "decode_error"
    /\ Cardinality({e \in Edges : e.kind = "SubjectRelation"}) = 1
    /\ {e \in Edges : e.kind \in RelationKinds \ {"SubjectRelation"}} = {}

\* No line failed to decode and no step of the clear, platform, constraint or
\* entity stages failed.
NoFatalError ==
    /\ last.outcome # "decode_error"
    /\ last.stage \in {"CLEAR", "PLATFORMS", "CONSTRAINTS"} \cup EntityStages
          => last.outcome \notin {"store_error", "lookup_error"}

\* C18: every run eventually reaches DONE or the aborted state, and it is
\* aborted only by a line that fails to decode or by a failing step of the
\* clear, platform, constraint or entity stages: without such an error the
\* run eventually reaches DONE, however many relation records fail.
C18_Terminates ==
    /\ <>(pc \in {"DONE", "ABORTED"})
    /\ [](pc = "ABORTED" => ~NoFatalError)

\* C18 witness: the run read all the lines of its files and reached DONE;
\* there are subjects, persons and characters in the store and none of the
\* relation lines left a relationship (each was filtered or failed).
C18_Witness ==
    /\ pc = "DONE" /\ lines = MaxLines
    /\ DOMAIN store.subjects # {} /\ DOMAIN store.persons # {}
    /\ DOMAIN store.characters # {}
    /\ {e \in Edges : e.kind \in RelationKinds} = {}

\* C19: no step of a relation stage, whether its record is written, filtered
\* or fails, changes a table of the Reference Index; the subject tables are
\* changed only in SUBJECTS, person_id_set only in PERSONS and
\* character_name_mapping only in CHARACTERS.
C19_IndexReadOnlyInRelationStages ==
    [][/\ pc \in RelationStages => index' = index
       /\ (\/ subject_category_mapping' # subject_category_mapping
           \/ subject_name_mapping' # subject_name_mapping) => pc = "SUBJECTS"
       /\ person_id_set' # person_id_set => pc = "PERSONS"
       /\ character_name_mapping' # character_name_mapping => pc = "CHARACTERS"]_vars

\* C19 witness: the four relation stages are over; records were written,
\* filtered and failed in them, and the index holds what the entity stages
\* put into it.
C19_Witness ==
    /\ pc = "PERSON_CHARACTER_RELATIONS" /\ last.stage = pc
    /\ last.outcome \in {"store_error", "lookup_error"}
    /\ \E e \in Edges : e.kind \in RelationKinds
    /\ DOMAIN subject_category_mapping = DOMAIN store.subjects
    /\ person_id_set = DOMAIN store.persons
    /\ DOMAIN character_name_mapping = DOMAIN store.characters
    /\ DOMAIN character_name_mapping # Ids

\* C20: in a run on a fresh object, from the start of SUBJECT_RELATIONS to
\* DONE every id of the Reference Index has its node in the store: the keys
\* of the subject tables are ids of Subject nodes, person_id_set holds ids of
\* Person nodes, the keys of character_name_mapping are ids of Character
\* nodes; so a record that passes the filter refers to existing nodes only.
C20_IndexedIdsHaveNodes ==
    (run = 1 /\ pc \in RelationStages \cup {"DONE"}) =>
        /\ DOMAIN subject_category_mapping \subseteq DOMAIN store.subjects
        /\ DOMAIN subject_name_mapping \subseteq DOMAIN store.subjects
        /\ person_id_set \subseteq DOMAIN store.persons
        /\ DOMAIN character_name_mapping \subseteq DOMAIN store.characters

\* C20 witness: a person-character record passed the filter and was written;
\* the person, the character and the subject it names are nodes of the store.
C20_Witness ==
    /\ run = 1 /\ last.stage = "PERSON_CHARACTER_RELATIONS"
    /\ last.outcome = "written" /\ last.changed
    /\ last.rec.person_id \in person_id_set \cap DOMAIN store.persons
    /\ last.rec.character_id \in DOMAIN character_name_mapping \cap DOMAIN store.characters
    /\ last.rec.subject_id \in DOMAIN subject_name_mapping \cap DOMAIN store.subjects

\* C21: an entity record whose insertion fails (the store refuses the CREATE,
\* or a person type, career or character role is in no dictionary) leaves
\* the Reference Index as it was: the id of the record is in no index table
\* of the aborted state.
C21_FailedEntityNotIndexed ==
    [][(pc \in EntityStages /\ last'.outcome \in {"store_error", "lookup_error"})
       => /\ index' = index
          /\ last'.rec.id \notin DOMAIN subject_category_mapping'
                                   \cup DOMAIN subject_name_mapping'
                                   \cup person_id_set'
                                   \cup DOMAIN character_name_mapping']_vars

\* C22: subject_category_mapping and subject_name_mapping always have the
\* same keys, so a person-character record whose person and character are
\* indexed passes its filter exactly when its subject is a key of
\* subject_category_mapping, the table the other three filters test.
C22_SubjectTablesSameKeys ==
    /\ DOMAIN subject_category_mapping = DOMAIN subject_name_mapping
    /\ \A r \in PersonCharacterRelation :
          (r.person_id \in person_id_set
              /\ r.character_id \in DOMAIN character_name_mapping)
          => (person_character_relation_passes(r)
                 <=> r.subject_id \in DOMAIN subject_category_mapping)

\* C22 witness: a person-character record passed its filter and was written
\* while one of the two subject ids is a key of both subject tables and the
\* other of neither.
C22_Witness ==
    /\ last.stage = "PERSON_CHARACTER_RELATIONS" /\ last.outcome = "written"
    /\ DOMAIN subject_name_mapping = {last.rec.subject_id}
    /\ DOMAIN subject_category_mapping = {last.rec.subject_id}
    /\ \E r \in PersonCharacterRelation :
          /\ r.person_id = last.rec.person_id
          /\ r.character_id = last.rec.character_id
          /\ ~person_character_relation_passes(r)

====
